---- MODULE Spec2Model ----
(***************************************************************************)
(* Model of src/src/solver.cpp (DGFEM-Acoustic): the per-element update    *)
(* kernel numStep and the two time integrators forwardEuler and            *)
(* rungeKutta, with the Mesh collaborator, the eigen:: helpers and the     *)
(* gmsh output sink they call.                                             *)
(*                                                                         *)
(* Numbers.  The nodal fields (u, k1..k4, Flux, scratch vectors) are exact *)
(* rationals <<n, d>> in lowest terms.  The loop variables t, tDisplay and *)
(* step are C++ doubles that are only ever added and compared: they are    *)
(* modelled as binary floating point numbers with a Prec-bit significand   *)
(* (round to nearest, ties to even), counted in ticks of a quarter of a    *)
(* time unit.  A double has 53 bits; the rounding behaviour is the same.   *)
(***************************************************************************)
EXTENDS Integers, Sequences, FiniteSets, TLC

VARIABLES
    config,        \* Config: timing, physical constants, threads, sources
    mesh,          \* Mesh: elNum, elNumNodes, kind, precomputed face flux
    pc,            \* position of the controlling thread
    u,             \* nodal solution, u[eq][node]
    k,             \* rungeKutta's copies k1..k4, k[s][eq][node]
    Flux,          \* Flux[eq][node][d]
    elFlux,        \* elFlux[0] is the namespace-scope vector, elFlux[th] thread th's copy
    elStiffvector, \* likewise
    srcIndices,    \* srcIndices[src]: the node indices inside source src
    t, step, tDisplay, \* the loop variables of the time loop (doubles)
    eq,            \* numStep's equation counter
    stage,         \* 0: numStep works on u (forwardEuler); 1..4: on k[stage]
    thPc, thEl,    \* each worker's position in the element body and its element
    views,         \* the output sink: the time layers added by addModelData
    written,       \* the views flushed by gmsh::view::write
    uPost,         \* history: u as the source injection of this iteration left it
    uIn,           \* history: the equation's vector as the parallel loop found it
    injected,      \* history: the sources the last injection wrote
    fired,         \* history: whether this iteration took a snapshot
    tSeen,         \* history: tDisplay as the snapshot condition read it
    tInj           \* history: the simulated time of the last injection (-1: none)

vars == <<config, mesh, pc, u, k, Flux, elFlux, elStiffvector, srcIndices,
          t, step, tDisplay, eq, stage, thPc, thEl, views, written,
          uPost, uIn, injected, fired, tSeen, tInj>>

\* ------------------------------------------------------------------ bounds

\* significand bits of the modelled double
Prec == 3
\* largest number of elements of a mesh
MaxElNum == 2
\* largest config.numThreads
MaxThreads == 2

\* the four equations: pressure and three velocity components
NumEq == 4
\* spatial components of a flux
Dim == 3

\* ------------------------------------------------------- exact rationals

Abs(x) == IF x < 0 THEN -x ELSE x

\* the one element of a singleton
Only(S) == CHOOSE x \in S : TRUE

RECURSIVE GCD(_, _)
GCD(a, b) == IF b = 0 THEN a ELSE Only({GCD(y, x % y) : x \in {a}, y \in {b}})

Norm(n, d) ==
    IF n = 0 THEN <<0, 1>>
    ELSE LET g == GCD(Abs(n), Abs(d))
             s == IF d < 0 THEN -1 ELSE 1
         IN  <<(s * n) \div g, (s * d) \div g>>

Rat(n) == <<n, 1>>
Zero == <<0, 1>>
\* x + y of two fractions in lowest terms; common factors are cancelled
\* before anything is multiplied
AddN(x, y) ==
    LET g == GCD(x[2], y[2])
    IN  Norm(x[1] * (y[2] \div g) + y[1] * (x[2] \div g), (x[2] \div g) * y[2])
\* x * y, likewise
MulN(x, y) ==
    LET g1 == GCD(Abs(x[1]), y[2])
        g2 == GCD(Abs(y[1]), x[2])
    IN  Norm((x[1] \div g1) * (y[1] \div g2), (x[2] \div g2) * (y[2] \div g1))
\* the operands are evaluated once, then combined
RAdd(a, b) == Only({AddN(x, y) : x \in {a}, y \in {b}})
RNeg(a) == Only({<<-x[1], x[2]>> : x \in {a}})
RSub(a, b) == RAdd(a, RNeg(b))
RMul(a, b) == Only({MulN(x, y) : x \in {a}, y \in {b}})
RDiv(a, b) ==
    Only({MulN(x, IF y[1] < 0 THEN <<-y[2], -y[1]>> ELSE <<y[2], y[1]>>) :
            x \in {a}, y \in {b}})

RECURSIVE RSum(_, _, _)
\* sum of f[i] for i in lo..hi
RSum(f, lo, hi) == IF lo > hi THEN Zero ELSE RAdd(f[lo], RSum(f, lo + 1, hi))

\* ------------------------------------------------------- double rounding

Pow2Prec == 2 ^ Prec

RECURSIVE RoundTo(_, _)
\* x rounded to a multiple of q (or of a larger power of two) with a
\* Prec-bit significand; nearest, ties to even
RoundTo(x, q) ==
    IF x \div q < Pow2Prec
    THEN LET m  == x \div q
             lo == m * q
             r  == x - lo
         IN  IF 2 * r < q THEN lo
             ELSE IF 2 * r > q THEN lo + q
             ELSE IF m % 2 = 0 THEN lo ELSE lo + q
    ELSE RoundTo(x, 2 * q)

Round(x) == RoundTo(x, 1)
IsDouble(x) == Round(x) = x
\* a += b on doubles
FAdd(a, b) == Round(a + b)

\* one time unit is four ticks
Tick == <<1, 4>>
\* a time in ticks as a number
TimeVal(x) == RMul(Rat(x), Tick)

\* sin of q quarter turns
Sin4(q) == CASE q % 4 = 0 -> Rat(0)
             [] q % 4 = 1 -> Rat(1)
             [] q % 4 = 2 -> Rat(0)
             [] q % 4 = 3 -> Rat(-1)

\* the source value with cos for sin
SourceValueCos(src, time) == RMul(Rat(src[5]), Sin4(src[6] * time + src[7] + 1))

\* amp*sin(2*M_PI*freq*t+phase): freq in cycles per time unit, the time in
\* ticks, phase in quarter turns
SourceValue(src, time) == RMul(Rat(src[5]), Sin4(src[6] * time + src[7]))

\* ------------------------------------------- the solver's size variables

\* solver::elNumNodes, set from mesh.getElNumNodes()
elNumNodes == mesh.elNumNodes
\* solver::numNodes, set from mesh.getNumNodes()
numNodes == mesh.elNum * mesh.elNumNodes

Eqs == 0 .. NumEq - 1
Els == 0 .. mesh.elNum - 1
Nodes == 0 .. numNodes - 1
Local == 0 .. elNumNodes - 1

ZeroVec(n) == [i \in 0 .. n - 1 |-> Zero]

\* ------------------------------------------------------- eigen:: helpers

\* eigen::minus(A, B, N): A = A - B
minus(A, B) == [i \in DOMAIN A |-> RSub(A[i], B[i])]

\* eigen::linEq(A, X, Y, alpha, beta, N): Y = alpha*A*X + beta*Y
linEq(A, X, Y, alpha, beta) ==
    [i \in DOMAIN Y |->
        RAdd(RMul(alpha, RSum([j \in DOMAIN X |-> RMul(A[i][j], X[j])],
                               0, elNumNodes - 1)),
             RMul(beta, Y[i]))]

\* eigen::plusTimes(A, B, c, N) as the Runge-Kutta stages use it: A = c*B
plusTimes(A, B, c) == [i \in DOMAIN A |-> RMul(c, B[i])]

\* ------------------------------------------------- the Mesh collaborator

\* the inverse mass matrix of element el, as mesh.elMassMatrix(el) holds it
\* after mesh.precomputeMassMatrix()
elMassMatrix(el) ==
    [i \in Local |-> [j \in Local |->
        IF mesh.kind = "zero"
        THEN (IF i = j THEN Rat(1) ELSE Zero)
        ELSE (IF i = j THEN Rat(1 + (el % 2)) ELSE IF j > i THEN Rat(1) ELSE Zero)]]

\* the entry (i, j) of element el's stiffness matrix in direction d
StiffCoef(el, i, j, d) ==
    IF mesh.kind = "zero" THEN 0 ELSE ((el + 2 * i + j + d) % 3) - 1

\* mesh.getElStiffVector(el, Flux[eq], u[eq], out): reads the flux and the
\* solution at the element's own nodes
getElStiffVector(el, FluxEq, uEq) ==
    [i \in Local |->
        RAdd(RSum([m \in 0 .. Dim * elNumNodes - 1 |->
                      RMul(Rat(StiffCoef(el, i, m \div Dim, m % Dim)),
                           FluxEq[el * elNumNodes + (m \div Dim)][m % Dim])],
                  0, Dim * elNumNodes - 1),
             IF mesh.kind = "zero" THEN Zero ELSE uEq[el * elNumNodes + i])]

\* mesh.precomputeFlux(u[eq], Flux[eq], eq): the face flux of every element,
\* from the flux and the solution at its own nodes and at its neighbour's
precomputeFlux(uEq, FluxEq, e) ==
    [el \in Els |-> [i \in Local |->
        IF mesh.kind = "zero" THEN Zero
        ELSE LET own == el * elNumNodes + i
                 nbr == ((el + 1) % mesh.elNum) * elNumNodes + i
             IN  RAdd(RMul(<<1, 2>>, RAdd(FluxEq[own][e % Dim], FluxEq[nbr][e % Dim])),
                      RSub(uEq[own], uEq[nbr]))]]

\* mesh.getElFlux(el, out): the face flux precomputeFlux left for element el
getElFlux(el) == mesh.elFlux[el]

\* mesh.updateFlux(u, Flux, v0, c0, rho0): the physical flux of the acoustic
\* system at every node
updateFlux(uu, v0, c0, rho0) ==
    [e \in Eqs |-> [n \in Nodes |-> [d \in 0 .. Dim - 1 |->
        IF e = 0
        THEN RAdd(RMul(Rat(v0[d + 1]), uu[0][n]),
                  RMul(Rat(rho0 * c0 * c0), uu[d + 1][n]))
        ELSE RAdd(RMul(Rat(v0[d + 1]), uu[e][n]),
                  IF d = e - 1 THEN RDiv(uu[0][n], Rat(rho0)) ELSE Zero)]]]

\* gmsh::model::mesh::getNode: the coordinates of node n
NodeCoord(n) == <<n, 0, 0>>

\* --------------------------------------------------------------- numStep

\* the array numStep was handed: u from forwardEuler, k1..k4 from rungeKutta
Target == IF stage = 0 THEN u ELSE k[stage]

\* numStep's beta: 1 from forwardEuler, 0 from every Runge-Kutta stage
EulerBeta == 1
RKBeta == 0
Beta == IF stage = 0 THEN Rat(EulerBeta) ELSE Rat(RKBeta)

Threads == 1 .. config.numThreads

\* schedule(static): the iterations el = 0..elNum-1 are cut into one
\* contiguous chunk per thread, the first elNum % numThreads chunks one longer
ChunkSize(th) ==
    mesh.elNum \div config.numThreads
      + (IF th - 1 < (mesh.elNum % config.numThreads) THEN 1 ELSE 0)
ChunkLo(th) ==
    (th - 1) * (mesh.elNum \div config.numThreads)
      + (IF th - 1 < (mesh.elNum % config.numThreads)
         THEN th - 1 ELSE (mesh.elNum % config.numThreads))

\* the scratch vectors left shared between the threads
SharedScratch(th) == 0

\* firstprivate(elFlux, elStiffvector): thread th works on its own copy
ScratchOf(th) == th

\* the block offset without the stride
YBaseNoStride(el) == el

\* &u[eq][el*elNumNodes]: where element el's block starts
YBase(el) == el * elNumNodes

\* the elNumNodes entries of vector v from index base on
Block(v, base) == [i \in Local |-> v[base + i]]
\* v with those entries replaced by y
WithBlock(v, base, y) ==
    [n \in DOMAIN v |-> IF n >= base /\ n < base + elNumNodes THEN y[n - base] ELSE v[n]]

\* mesh.precomputeFlux for equation eq, then the parallel loop starts: every
\* thread gets copies of the two scratch vectors and its first element
NumStepPrecompute ==
    /\ pc = "ns_pre"
    /\ mesh' = [mesh EXCEPT !.elFlux = precomputeFlux(Target[eq], Flux[eq], eq)]
    /\ elFlux' = [s \in DOMAIN elFlux |-> elFlux[0]]
    /\ elStiffvector' = [s \in DOMAIN elStiffvector |-> elStiffvector[0]]
    /\ thPc' = [th \in Threads |-> IF ChunkSize(th) > 0 THEN "getElFlux" ELSE "done"]
    /\ thEl' = [th \in Threads |-> ChunkLo(th)]
    /\ uIn' = Target[eq]
    /\ pc' = "ns_par"
    /\ UNCHANGED <<config, u, k, Flux, srcIndices, t, step, tDisplay, eq, stage,
                   views, written, uPost, injected, fired, tSeen, tInj>>

\* mesh.getElFlux(el, elFlux.data())
ThGetElFlux(th) ==
    /\ pc = "ns_par" /\ thPc[th] = "getElFlux"
    /\ elFlux' = [elFlux EXCEPT ![ScratchOf(th)] = getElFlux(thEl[th])]
    /\ thPc' = [thPc EXCEPT ![th] = "getElStiffVector"]
    /\ UNCHANGED <<config, mesh, pc, u, k, Flux, elStiffvector, srcIndices, t, step,
                   tDisplay, eq, stage, thEl, views, written, uPost, uIn, injected,
                   fired, tSeen, tInj>>

\* mesh.getElStiffVector(el, Flux[eq], u[eq], elStiffvector.data())
ThGetElStiffVector(th) ==
    /\ pc = "ns_par" /\ thPc[th] = "getElStiffVector"
    /\ elStiffvector' = [elStiffvector EXCEPT ![ScratchOf(th)] =
                            getElStiffVector(thEl[th], Flux[eq], Target[eq])]
    /\ thPc' = [thPc EXCEPT ![th] = "minus"]
    /\ UNCHANGED <<config, mesh, pc, u, k, Flux, elFlux, srcIndices, t, step,
                   tDisplay, eq, stage, thEl, views, written, uPost, uIn, injected,
                   fired, tSeen, tInj>>

\* eigen::minus(elStiffvector.data(), elFlux.data(), elNumNodes)
ThMinus(th) ==
    /\ pc = "ns_par" /\ thPc[th] = "minus"
    /\ elStiffvector' = [elStiffvector EXCEPT ![ScratchOf(th)] =
                            minus(elStiffvector[ScratchOf(th)], elFlux[ScratchOf(th)])]
    /\ thPc' = [thPc EXCEPT ![th] = "linEq"]
    /\ UNCHANGED <<config, mesh, pc, u, k, Flux, elFlux, srcIndices, t, step,
                   tDisplay, eq, stage, thEl, views, written, uPost, uIn, injected,
                   fired, tSeen, tInj>>

\* eigen::linEq(&mesh.elMassMatrix(el), &elStiffvector[0], &u[eq][el*elNumNodes],
\*              config.timeStep, beta, elNumNodes), then the thread's next element
ThLinEq(th) ==
    /\ pc = "ns_par" /\ thPc[th] = "linEq"
    /\ LET el   == thEl[th]
           y    == linEq(elMassMatrix(el), elStiffvector[ScratchOf(th)],
                         Block(Target[eq], YBase(el)), TimeVal(config.timeStep), Beta)
           newv == WithBlock(Target[eq], YBase(el), y)
       IN  /\ IF stage = 0
              THEN u' = [u EXCEPT ![eq] = newv] /\ UNCHANGED k
              ELSE k' = [k EXCEPT ![stage][eq] = newv] /\ UNCHANGED u
           /\ IF el + 1 < ChunkLo(th) + ChunkSize(th)
              THEN /\ thEl' = [thEl EXCEPT ![th] = el + 1]
                   /\ thPc' = [thPc EXCEPT ![th] = "getElFlux"]
              ELSE /\ thPc' = [thPc EXCEPT ![th] = "done"]
                   /\ UNCHANGED thEl
    /\ UNCHANGED <<config, mesh, pc, Flux, elFlux, elStiffvector, srcIndices, t, step,
                   tDisplay, eq, stage, views, written, uPost, uIn, injected, fired, tSeen,
                   tInj>>

\* the end of the parallel loop: every thread is through its chunk; ++eq, and
\* numStep returns after the fourth equation
Join ==
    /\ pc = "ns_par"
    /\ \A th \in Threads : thPc[th] = "done"
    /\ thPc' = [th \in Threads |-> "idle"]
    /\ eq' = eq + 1
    /\ pc' = IF eq + 1 < NumEq THEN "ns_pre" ELSE "ns_ret"
    /\ UNCHANGED <<config, mesh, u, k, Flux, elFlux, elStiffvector, srcIndices, t,
                   step, tDisplay, stage, thEl, views, written, uPost, uIn, injected,
                   fired, tSeen, tInj>>

\* ------------------------------------------ forwardEuler and rungeKutta

Sources == 1 .. Len(config.sources)

\* the node test of the source precomputation: squared distance to the
\* centre (src[1], src[2], src[3]) strictly below the squared radius src[4]
InSource(n, src) ==
    LET c == NodeCoord(n)
    IN  (c[1] - src[1]) * (c[1] - src[1]) + (c[2] - src[2]) * (c[2] - src[2])
          + (c[3] - src[3]) * (c[3] - src[3]) < src[4] * src[4]

\* memory allocation, mesh.precomputeMassMatrix(), the source node sets, and
\* the initialisation of the loop variables
Setup ==
    /\ pc = "start"
    /\ elFlux' = [s \in 0 .. config.numThreads |-> ZeroVec(elNumNodes)]
    /\ elStiffvector' = [s \in 0 .. config.numThreads |-> ZeroVec(elNumNodes)]
    /\ Flux' = [e \in Eqs |-> [n \in Nodes |-> [d \in 0 .. Dim - 1 |-> Zero]]]
    /\ srcIndices' = [i \in Sources |-> {n \in Nodes : InSource(n, config.sources[i])}]
    /\ t' = config.timeStart
    /\ step' = 0
    /\ tDisplay' = 0
    /\ pc' = "test"
    /\ UNCHANGED <<config, mesh, u, k, eq, stage, thPc, thEl, views, written, uPost,
                   uIn, injected, fired, tSeen, tInj>>

\* the loop condition t <= config.timeEnd
LoopTest ==
    /\ pc = "test"
    /\ pc' = IF t <= config.timeEnd THEN "snap" ELSE "fin"
    /\ UNCHANGED <<config, mesh, u, k, Flux, elFlux, elStiffvector, srcIndices, t,
                   step, tDisplay, eq, stage, thPc, thEl, views, written, uPost, uIn,
                   injected, fired, tSeen, tInj>>

\* the condition of "Savings and prints"
SnapshotDue == tDisplay >= config.timeRate \/ step = 0

\* int elN = el*elNumNodes+n
ElN(el, n) == el * elNumNodes + n

\* the three time layers handed to gmsh::view::addModelData
Layers ==
    { [view |-> "Pressure", step |-> step, time |-> t,
       data |-> [el \in Els |-> [n \in Local |-> u[0][ElN(el, n)]]]],
      [view |-> "Density", step |-> step, time |-> t,
       data |-> [el \in Els |-> [n \in Local |->
                    RDiv(u[0][ElN(el, n)], Rat(config.c0 * config.c0))]]],
      [view |-> "Velocity", step |-> step, time |-> t,
       data |-> [el \in Els |-> [m \in 0 .. 3 * elNumNodes - 1 |->
                    u[1 + (m % 3)][ElN(el, m \div 3)]]]] }

\* the snapshot, when it is due
SnapshotCheck ==
    /\ pc = "snap"
    /\ IF SnapshotDue
       THEN /\ tDisplay' = 0
            /\ views' = views \cup Layers
            /\ fired' = TRUE
       ELSE /\ UNCHANGED <<tDisplay, views>>
            /\ fired' = FALSE
    /\ tSeen' = tDisplay
    /\ pc' = "src"
    /\ UNCHANGED <<config, mesh, u, k, Flux, elFlux, elStiffvector, srcIndices, t,
                   step, eq, stage, thPc, thEl, written, uPost, uIn, injected, tInj>>

\* the duration test with <=
SourceActiveInclusive(src) == t <= src[8]

\* if(t<duration)
SourceActive(src) == t < src[8]

RECURSIVE InjectFrom(_, _)
\* the source loop from source s on, applied to the pressure vector p
InjectFrom(p, s) ==
    IF s > Len(config.sources) THEN p
    ELSE InjectFrom(
           IF SourceActive(config.sources[s])
           THEN [n \in DOMAIN p |-> IF n \in srcIndices[s]
                                    THEN SourceValue(config.sources[s], t) ELSE p[n]]
           ELSE p,
           s + 1)

\* "Update Source"
SourceInject ==
    /\ pc = "src"
    /\ u' = [u EXCEPT ![0] = InjectFrom(u[0], 1)]
    /\ uPost' = u'
    /\ injected' = {s \in Sources : SourceActive(config.sources[s])}
    /\ tInj' = t
    /\ pc' = "upd"
    /\ UNCHANGED <<config, mesh, k, Flux, elFlux, elStiffvector, srcIndices, t, step,
                   tDisplay, eq, stage, thPc, thEl, views, written, uIn, fired, tSeen>>

\* forwardEuler: mesh.updateFlux(u, Flux, ...) and the call numStep(.., u, Flux, 1)
EulerUpdate ==
    /\ pc = "upd" /\ config.integrator = "forwardEuler"
    /\ Flux' = updateFlux(u, config.v0, config.c0, config.rho0)
    /\ stage' = 0
    /\ eq' = 0
    /\ pc' = "ns_pre"
    /\ UNCHANGED <<config, mesh, u, k, elFlux, elStiffvector, srcIndices, t, step,
                   tDisplay, thPc, thEl, views, written, uPost, uIn, injected, fired, tSeen,
                   tInj>>

\* the first stage without its flux refresh
RKStage1Stale ==
    /\ pc = "upd" /\ config.integrator = "rungeKutta"
    /\ k' = [s \in 1 .. 4 |-> u]
    /\ stage' = 1
    /\ eq' = 0
    /\ pc' = "ns_pre"
    /\ UNCHANGED <<config, mesh, u, Flux, elFlux, elStiffvector, srcIndices, t, step,
                   tDisplay, thPc, thEl, views, written, uPost, uIn, injected, fired,
                   tSeen, tInj>>

\* rungeKutta: k1 = k2 = k3 = k4 = u, mesh.updateFlux(k1, ..) and the call
\* numStep(.., k1, Flux, 0)
RKStage1 ==
    /\ pc = "upd" /\ config.integrator = "rungeKutta"
    /\ k' = [s \in 1 .. 4 |-> u]
    /\ Flux' = updateFlux(u, config.v0, config.c0, config.rho0)
    /\ stage' = 1
    /\ eq' = 0
    /\ pc' = "ns_pre"
    /\ UNCHANGED <<config, mesh, u, elFlux, elStiffvector, srcIndices, t, step,
                   tDisplay, thPc, thEl, views, written, uPost, uIn, injected, fired, tSeen,
                   tInj>>

\* the factor 0.5 at every stage
StageCoefHalf(s) == <<1, 2>>

\* the factor c of eigen::plusTimes(k2, k1, 0.5, ..), (k3, k2, 0.5, ..) and
\* (k4, k3, 1, ..), by the stage that has just ended
StageCoef(s) == IF s = 3 THEN Rat(1) ELSE <<1, 2>>

\* after stage s < 4: plusTimes on every equation of the next copy, then
\* mesh.updateFlux of it and the call numStep(.., k[s+1], Flux, 0)
RKNextStage ==
    /\ pc = "ns_ret" /\ stage \in 1 .. 3
    /\ LET next == [e \in DOMAIN u |->
                      plusTimes(k[stage + 1][e], k[stage][e], StageCoef(stage))]
       IN  /\ k' = [k EXCEPT ![stage + 1] = next]
           /\ Flux' = updateFlux(next, config.v0, config.c0, config.rho0)
    /\ stage' = stage + 1
    /\ eq' = 0
    /\ pc' = "ns_pre"
    /\ UNCHANGED <<config, mesh, u, elFlux, elStiffvector, srcIndices, t, step,
                   tDisplay, thPc, thEl, views, written, uPost, uIn, injected, fired, tSeen,
                   tInj>>

\* the combination with the literal 4 typed for k4
CombineTypo(x, a, b, c, d) ==
    RAdd(x, RDiv(RAdd(RAdd(a, RMul(Rat(2), b)), RAdd(RMul(Rat(2), c), Rat(4))), Rat(6)))

\* the combination with every stage weighted 1
CombineUnweighted(x, a, b, c, d) ==
    RAdd(x, RDiv(RAdd(RAdd(a, b), RAdd(c, d)), Rat(6)))

\* u[eq][i] += (k1[eq][i]+2*k2[eq][i]+2*k3[eq][i]+k4[eq][i])/6.0
Combine(x, a, b, c, d) ==
    RAdd(x, RDiv(RAdd(RAdd(a, RMul(Rat(2), b)), RAdd(RMul(Rat(2), c), d)), Rat(6)))

\* "Concat results of R-K iterations"
RKCombine ==
    /\ pc = "ns_ret" /\ stage = 4
    /\ u' = [e \in DOMAIN u |-> [i \in Nodes |->
                Combine(u[e][i], k[1][e][i], k[2][e][i], k[3][e][i], k[4][e][i])]]
    /\ pc' = "adv"
    /\ UNCHANGED <<config, mesh, k, Flux, elFlux, elStiffvector, srcIndices, t, step,
                   tDisplay, eq, stage, thPc, thEl, views, written, uPost, uIn,
                   injected, fired, tSeen, tInj>>

\* the loop increment: t+=config.timeStep, tDisplay+=config.timeStep, ++step
Advance ==
    /\ \/ pc = "adv"
       \/ pc = "ns_ret" /\ stage = 0
    /\ t' = FAdd(t, config.timeStep)
    /\ tDisplay' = FAdd(tDisplay, config.timeStep)
    /\ step' = FAdd(step, 1)
    /\ pc' = "test"
    /\ UNCHANGED <<config, mesh, u, k, Flux, elFlux, elStiffvector, srcIndices, eq,
                   stage, thPc, thEl, views, written, uPost, uIn, injected, fired, tSeen,
                   tInj>>

\* "Save to file": gmsh::view::write of the three views
Finalize ==
    /\ pc = "fin"
    /\ written' = {"Pressure", "Density", "Velocity"}
    /\ pc' = "done"
    /\ UNCHANGED <<config, mesh, u, k, Flux, elFlux, elStiffvector, srcIndices, t,
                   step, tDisplay, eq, stage, thPc, thEl, views, uPost, uIn, injected,
                   fired, tSeen, tInj>>

\* ---------------------------------------------------------- the inputs

\* a duration no run reaches
Forever == 2 ^ 20

\* a source as config.sources holds it: [1..3] centre, [4] radius,
\* [5] amplitude, [6] frequency, [7] phase, [8] duration
Source(x, radius, amp, freq, phase, duration) ==
    <<x, 0, 0, radius, amp, freq, phase, duration>>

\* <<timeStart, timeEnd, timeStep, timeRate>> in ticks
Timings ==
    { <<0, 3, 1, 2>>, <<0, 2, 1, 1>>, <<2, 5, 1, 2>>, <<0, 8, 2, 4>>,
      <<0, 8, 3, 6>>, <<0, 10, 1, 4>>, <<0, 24, 3, 24>>, <<4, 4, 1, 1>> }

\* runs on a one-node mesh with zero stiffness and zero face flux
TimingRuns ==
    { [config |-> [integrator |-> ig, timeStart |-> tm[1], timeEnd |-> tm[2],
                   timeStep |-> tm[3], timeRate |-> tm[4], numThreads |-> 1,
                   c0 |-> 1, rho0 |-> 1, v0 |-> <<0, 0, 0>>, sources |-> srcs],
       mesh |-> [elNum |-> 1, elNumNodes |-> 1, kind |-> "zero",
                 elFlux |-> [el \in {0} |-> [i \in {0} |-> Zero]]],
       u |-> [e \in 0 .. NumEq - 1 |-> [n \in {0} |-> Zero]]] :
      ig \in {"forwardEuler", "rungeKutta"},
      tm \in Timings,
      srcs \in { <<>>,
                 <<Source(0, 1, 1, 1, 0, Forever)>>,
                 <<Source(0, 1, 1, 1, 0, 2), Source(0, 1, 2, 1, 1, 4)>> } }

\* runs on a mesh of elNum two-node elements with stiffness, face flux and
\* mass matrices that couple the nodes
CoupledRuns ==
    { [config |-> [integrator |-> ig, timeStart |-> 0, timeEnd |-> te,
                   timeStep |-> 4, timeRate |-> 4, numThreads |-> nt,
                   c0 |-> 2, rho0 |-> 1, v0 |-> <<1, 0, 0>>, sources |-> srcs],
       mesh |-> [elNum |-> en, elNumNodes |-> 2, kind |-> "coupled",
                 elFlux |-> [el \in 0 .. en - 1 |-> [i \in 0 .. 1 |-> Zero]]],
       u |-> [e \in 0 .. NumEq - 1 |-> [n \in 0 .. 2 * en - 1 |->
                 Rat(((e + 2 * n) % 3) - 1)]]] :
      ig \in {"forwardEuler", "rungeKutta"},
      te \in {0, 4},
      nt \in 1 .. MaxThreads,
      en \in 1 .. MaxElNum,
      srcs \in { <<>>, <<Source(1, 1, 2, 1, 1, Forever)>> } }

Init ==
    /\ \E run \in TimingRuns \cup CoupledRuns :
          /\ config = run.config
          /\ mesh = run.mesh
          /\ u = run.u
          /\ uPost = run.u
    /\ pc = "start"
    /\ k = [s \in 1 .. 4 |-> <<>>]
    /\ Flux = <<>>
    /\ elFlux = <<>>
    /\ elStiffvector = <<>>
    /\ srcIndices = <<>>
    /\ t = 0 /\ step = 0 /\ tDisplay = 0
    /\ eq = 0 /\ stage = 0
    /\ thPc = [th \in 1 .. config.numThreads |-> "idle"]
    /\ thEl = [th \in 1 .. config.numThreads |-> 0]
    /\ views = {} /\ written = {}
    /\ uIn = <<>>
    /\ injected = {}
    /\ fired = FALSE
    /\ tSeen = 0
    /\ tInj = -1

Next ==
    \/ Setup
    \/ LoopTest
    \/ SnapshotCheck
    \/ SourceInject
    \/ EulerUpdate
    \/ RKStage1
    \/ NumStepPrecompute
    \/ \E th \in Threads : ThGetElFlux(th)
    \/ \E th \in Threads : ThGetElStiffVector(th)
    \/ \E th \in Threads : ThMinus(th)
    \/ \E th \in Threads : ThLinEq(th)
    \/ Join
    \/ RKNextStage
    \/ RKCombine
    \/ Advance
    \/ Finalize

Spec == Init /\ [][Next]_vars

\* the controlling thread and every worker thread keep running
FairSpec == Spec /\ WF_vars(Next)

\* ----------------------------------------------------------------- claims

InNumStep == pc \in {"ns_pre", "ns_par", "ns_ret"}
IsEuler == config.integrator = "forwardEuler"
IsRK == config.integrator = "rungeKutta"

\* dt * MassMatrixInverse(el) * (ElementStiffness(el, fluxEq, uEq) - ElementFlux(el))
\* + beta * uEq[el-block], entry i, with the face flux precomputed from uEq
KernelEntry(el, i, fluxEq, uEq, e, beta) ==
    LET stiff == getElStiffVector(el, fluxEq, uEq)
        face  == precomputeFlux(uEq, fluxEq, e)[el]
        M     == elMassMatrix(el)
        resid == [j \in Local |-> RSub(stiff[j], face[j])]
    IN  RAdd(RMul(TimeVal(config.timeStep),
                  RSum([j \in Local |-> RMul(M[i][j], resid[j])], 0, elNumNodes - 1)),
             RMul(beta, uEq[el * elNumNodes + i]))

\* C1: when numStep returns to forwardEuler (beta = 1), every element block of
\* every equation holds dt*M^-1(el)*(Stiffness(el) - Flux(el)) + u_old, u_old
\* being the block on entry to the call
C1_EulerKernel ==
    (pc = "ns_ret" /\ stage = 0) =>
        \A e \in Eqs : \A el \in Els : \A i \in Local :
            u[e][el * elNumNodes + i] = KernelEntry(el, i, Flux[e], uPost[e], e, Rat(1))

\* a forwardEuler call of numStep has returned on a two-element coupled mesh
\* in the second iteration, and has changed u
C1_Witness ==
    /\ pc = "ns_ret" /\ stage = 0
    /\ mesh.kind = "coupled" /\ mesh.elNum = 2
    /\ step = 1
    /\ u # uPost

RECURSIVE SeqElements(_, _)
\* the element loop run by one thread in the order el, el+1, .. on vector v
SeqElements(v, el) ==
    IF el >= mesh.elNum THEN v
    ELSE SeqElements(
            WithBlock(v, el * elNumNodes,
                      linEq(elMassMatrix(el),
                            minus(getElStiffVector(el, Flux[eq], v), getElFlux(el)),
                            Block(v, el * elNumNodes), TimeVal(config.timeStep), Beta)),
            el + 1)

AllJoined == pc = "ns_par" /\ \A th \in Threads : thPc[th] = "done"

\* C2: whatever the interleaving of the threads' element iterations, the
\* equation's vector at the end of the parallel loop is the one the
\* sequential loop el = 0..elNum-1 produces from the vector the loop started with
C2_OrderIndependent == AllJoined => Target[eq] = SeqElements(uIn, 0)

\* two threads have each finished an element of the same equation, and the
\* equation's vector has changed
C2_Witness ==
    /\ AllJoined
    /\ config.numThreads >= 2 /\ mesh.elNum >= 2
    /\ Target[eq] # uIn

\* timeRate is a whole number n >= 1 of time steps
RateIsMultiple == config.timeRate >= config.timeStep
                    /\ config.timeRate % config.timeStep = 0
StepsPerSnapshot == config.timeRate \div config.timeStep
\* the variable step still counts exactly
StepExact == step < Pow2Prec

\* C3 as stated: with timeRate an exact multiple n of timeStep, an iteration
\* takes a snapshot exactly when its step number is a multiple of n
C3_CadenceAsStated ==
    (pc = "src" /\ RateIsMultiple /\ StepExact) =>
        (fired <=> step % StepsPerSnapshot = 0)

\* the scenario of C4: one source of amplitude 1, frequency 1, phase 0 and
\* unbounded duration around node 0 of the zero-stiffness mesh, u zero at first
C4Scenario ==
    /\ mesh.kind = "zero"
    /\ config.sources = <<Source(0, 1, 1, 1, 0, Forever)>>

\* C4 as stated: every pressure layer holds sin(2*pi*t) at the source node,
\* t being the time the layer is tagged with
C4_SourceValueAsStated ==
    C4Scenario =>
        \A L \in views : L.view = "Pressure" => L.data[0][0] = Sin4(L.time)

\* C4 as amended: the snapshot of step 0 holds the initial value 0 at the
\* source node, and every later snapshot holds the value the previous
\* iteration injected, sin(2*pi*t') with t' that iteration's time, which is
\* t - timeStep when the addition did not round; under either integrator u
\* keeps the injected value through the update
C4_SourceValue ==
    C4Scenario =>
        /\ (pc = "src" /\ fired) =>
              \E L \in views :
                 /\ L.view = "Pressure" /\ L.step = step /\ L.time = t
                 /\ L.data[0][0] = IF tInj = -1 THEN Zero ELSE Sin4(tInj)
        /\ (pc = "src" /\ tInj # -1) => t = FAdd(tInj, config.timeStep)
        /\ (pc \notin {"start", "src"} /\ tInj # -1) => u[0][0] = Sin4(tInj)

\* a snapshot after step 0 whose source-node value is not sin(2*pi*t)
C4_Witness ==
    /\ C4Scenario /\ pc = "src" /\ fired /\ step > 0
    /\ Sin4(tInj) # Sin4(t)
    /\ \E L \in views : /\ L.view = "Pressure" /\ L.step = step /\ L.time = t
                        /\ L.data[0][0] = Sin4(tInj)

\* C5: without sources, from u = 0 and with zero stiffness and face flux,
\* u is zero in every equation and node throughout the run
C5_ZeroStays ==
    (mesh.kind = "zero" /\ config.sources = <<>>) =>
        \A e \in DOMAIN u : \A n \in DOMAIN u[e] : u[e][n] = Zero

\* such a run has been through Runge-Kutta iterations and has ended
C5_Witness ==
    /\ mesh.kind = "zero" /\ config.sources = <<>>
    /\ IsRK /\ pc = "done" /\ step >= 2

\* (k1 + 2*k2 + 2*k3 + k4) / 6 at equation e, node i, from the copies as they are
StageSum(e, i) ==
    RDiv(RAdd(RAdd(k[1][e][i], RMul(Rat(2), k[2][e][i])),
              RAdd(RMul(Rat(2), k[3][e][i]), k[4][e][i])),
         Rat(6))

\* C6: in a Runge-Kutta iteration u stays as the source injection left it
\* until the four stages are over, and the combination leaves
\* u_old + (k1 + 2*k2 + 2*k3 + k4)/6 in every equation and node, with the
\* copies as the four numStep calls left them
C6_Combination ==
    IsRK =>
        /\ (pc = "upd" \/ InNumStep) => u = uPost
        /\ pc = "adv" =>
              \A e \in Eqs : \A i \in Nodes :
                  u[e][i] = RAdd(uPost[e][i], StageSum(e, i))

\* a combination on the coupled two-element mesh that has changed u
C6_Witness ==
    /\ IsRK /\ pc = "adv"
    /\ mesh.kind = "coupled" /\ mesh.elNum = 2
    /\ \E e \in Eqs : \E i \in Nodes : StageSum(e, i) # Zero /\ u[e][i] # uPost[e][i]

\* the value the source loop leaves at node n of the pressure vector p: that
\* of the last source that is active at time tm and holds n
RECURSIVE LastWrite(_, _, _, _)
LastWrite(p, n, tm, s) ==
    IF s = 0 THEN p[n]
    ELSE IF tm < config.sources[s][8] /\ n \in srcIndices[s]
         THEN SourceValue(config.sources[s], tm)
         ELSE LastWrite(p, n, tm, s - 1)

\* C7 as stated: a source is injected exactly when the time elapsed since
\* timeStart is below its duration
C7_ElapsedAsStated ==
    pc = "upd" =>
        injected = {s \in Sources : tInj - config.timeStart < config.sources[s][8]}

\* C7 as amended: a source is injected exactly when the simulated time t,
\* which starts at timeStart, is below its duration; the injection overwrites
\* the pressure at the source's nodes and leaves the rest of u alone; and
\* once t has reached a source's duration it stays there, so that the source
\* is never injected again
C7_Duration ==
    /\ [](pc = "upd" =>
            /\ injected = {s \in Sources : t < config.sources[s][8]}
            /\ tInj = t)
    /\ [][pc = "src" =>
            /\ \A n \in Nodes :
                  u'[0][n] = LastWrite(u[0], n, t, Len(config.sources))
            /\ \A e \in 1 .. NumEq - 1 : u'[e] = u[e]]_vars
    /\ [][\A s \in Sources :
            (pc # "start" /\ t >= config.sources[s][8]) =>
                t' >= config.sources[s][8]]_vars

\* in a run that starts after time 0, a source is skipped although less time
\* than its duration has run, while another source is injected
C7_Witness ==
    /\ pc = "upd" /\ config.timeStart > 0
    /\ \E s \in Sources :
          /\ s \notin injected
          /\ tInj - config.timeStart < config.sources[s][8]
    /\ injected # {}

Phase ==
    CASE pc = "start" -> "Init"
      [] pc = "test" -> "LoopTest"
      [] pc = "snap" -> "SnapshotCheck"
      [] pc = "src" -> "SourceInject"
      [] pc = "upd" -> "FluxRefresh"
      [] InNumStep -> "Update"
      [] pc = "adv" -> "Advance"
      [] pc \in {"fin", "done"} -> "Finalize"

PhaseOrder ==
    { <<"Init", "LoopTest">>, <<"LoopTest", "SnapshotCheck">>,
      <<"SnapshotCheck", "SourceInject">>, <<"SourceInject", "FluxRefresh">>,
      <<"FluxRefresh", "Update">>, <<"Update", "Advance">>,
      <<"Update", "LoopTest">>, <<"Advance", "LoopTest">>,
      <<"LoopTest", "Finalize">> }

\* C9: an iteration goes through snapshot check, source injection, flux
\* refresh, update and time advance in this order: the snapshot holds u as the
\* injection is about to find it, the first flux of the update is that of the
\* injected state, the time moves only once the update is over, and the three
\* views are written only after the loop, when no layer is added any more
C9_PhaseOrder ==
    /\ [][Phase' # Phase => <<Phase, Phase'>> \in PhaseOrder]_vars
    /\ [][pc = "snap" =>
            /\ u' = u
            /\ fired' => \E L \in views' :
                            /\ L.view = "Pressure" /\ L.step = step /\ L.time = t
                            /\ \A el \in Els : \A n \in Local :
                                  L.data[el][n] = u[0][el * elNumNodes + n]]_vars
    /\ []((pc = "ns_pre" /\ eq = 0 /\ stage <= 1) =>
            /\ Target = uPost
            /\ Flux = updateFlux(uPost, config.v0, config.c0, config.rho0))
    /\ []((pc = "upd" \/ InNumStep \/ pc = "adv") => t = tInj)
    /\ [][t' # t => pc' = "test"]_vars
    /\ [](written # {} => pc = "done" /\ t > config.timeEnd)
    /\ [](pc = "done" => written = {"Pressure", "Density", "Velocity"})
    /\ [][written # {} => views' = views]_vars

\* a Runge-Kutta run with sources that took a snapshot after step 0 and has
\* written its views
C9_Witness ==
    /\ pc = "done" /\ IsRK
    /\ written = {"Pressure", "Density", "Velocity"}
    /\ config.sources # <<>>
    /\ \E L \in views : L.step > 0

InBody == pc \in {"snap", "src", "upd", "ns_pre", "ns_par", "ns_ret", "adv"}
Exited == pc \in {"fin", "done"}
\* timeStart + step*timeStep, without rounding
ExactTime == config.timeStart + step * config.timeStep

\* C10 as stated: the iterations run are those of the steps with
\* timeStart + step*timeStep <= timeEnd, and the loop is left at the first step
\* beyond
C10_StepsAsStated ==
    /\ (InBody /\ StepExact) => ExactTime <= config.timeEnd
    /\ (Exited /\ StepExact) => ExactTime > config.timeEnd

====
